---- MODULE Spec2Model ----
(***************************************************************************)
(* Verification model of haste's layer-normalisation forward kernel        *)
(* (lib/layer_norm_forward_gpu.cu.cc) and of the GRU inference driver      *)
(* (examples/gru.cc).                                                      *)
(*                                                                         *)
(* The kernel is modelled thread by thread.  A thread's step is the code   *)
(* it executes from one __syncthreads() to the next; the steps of the      *)
(* threads of the grid interleave freely, and a thread leaves a barrier    *)
(* only when every thread of its block that has not returned has arrived.  *)
(* The element type T is                                                   *)
(* modelled by exact rationals (records [k |-> "rat", n, d]); rsqrt is an  *)
(* uninterpreted constructor, and an uninitialised or out-of-range read    *)
(* yields the poison value Uninit, which every operation propagates.       *)
(***************************************************************************)
EXTENDS Integers, Sequences, FiniteSets, TLC

\* ------------------------------------------------------------------------
\* Bounds.  The launch geometry of Run is dim3 blockDim(4, 256); the model
\* keeps its shape (several rows per block, a power-of-two worker group per
\* row) at a size whose interleavings can be enumerated.
\* ------------------------------------------------------------------------
BlockDimX == 2
LogBlockDimY == 1
MaxBatch == 3
MaxHidden == 3
MaxPattern == 2
MaxSteps == 3

RECURSIVE Pow2(_)
Pow2(n) == IF n = 0 THEN 1 ELSE 2 * Pow2(n - 1)

BlockDimY == Pow2(LogBlockDimY)

VARIABLES
  batch_size,    \* ForwardPass::batch_size_
  hidden_size,   \* ForwardPass::hidden_size_
  alpha, beta,   \* per-column gain and bias, hidden_size elements each
  x,             \* input, batch_size * hidden_size elements
  y,             \* output, batch_size * hidden_size elements
  cache,         \* per-row statistics, 2 * batch_size elements
  launched,      \* number of kernel launches made by Run
  gridDimX,      \* gridDim.x of the launch
  th,            \* per thread: pc, loop variable s, barriers executed, mean
  shared,        \* per block: the extern __shared__ array
  ywr,           \* log of writes to y: <<index, thread>>
  cwr,           \* log of writes to cache: <<index, value>>
  x0, y0, cache0 \* input and results of the previous launch

VARIABLES
  time_steps,    \* x.dimension(2)
  gpc,           \* the host's position in main / GruInference
  loop_t,        \* the loop variable t of GruInference
  scope,         \* GruInference's automatic objects, in order of construction
  blas,          \* state of g_blas_handle
  queue,         \* device operations submitted and not yet executed
  dev,           \* device buffers: live, size, contents
  allocs,        \* per buffer: number of device allocations made
  frees,         \* per buffer: number of releases made
  submitted,     \* the timesteps Iterate was called for, in call order
  calls,         \* the arguments of the Iterate calls, in call order
  lastOp,        \* the device operation executed last
  eventsDone     \* the timer events the device has reached

gruvars == <<time_steps, gpc, loop_t, scope, blas, queue, dev, allocs, frees,
             submitted, calls, lastOp, eventsDone>>

lnvars == <<batch_size, hidden_size, alpha, beta, x, y, cache, launched,
            gridDimX, th, shared, ywr, cwr, x0, y0, cache0>>

\* ------------------------------------------------------------------------
\* The element type T.
\* ------------------------------------------------------------------------
Uninit == [k |-> "uninit"]

Abs(n) == IF n < 0 THEN -n ELSE n

RECURSIVE GCD(_, _)
GCD(a, b) == IF b = 0 THEN a ELSE GCD(b, a % b)

Norm(n, d) ==
  LET g == GCD(Abs(n), d) IN [k |-> "rat", n |-> n \div g, d |-> d \div g]

Rat(n) == [k |-> "rat", n |-> n, d |-> 1]

TAdd(a, b) ==
  IF a.k # "rat" \/ b.k # "rat" THEN Uninit
  ELSE Norm(a.n * b.d + b.n * a.d, a.d * b.d)

TSub(a, b) ==
  IF a.k # "rat" \/ b.k # "rat" THEN Uninit
  ELSE Norm(a.n * b.d - b.n * a.d, a.d * b.d)

TMul(a, b) ==
  IF a.k # "rat" \/ b.k # "rat" THEN Uninit
  ELSE Norm(a.n * b.n, a.d * b.d)

\* a / n for an int n > 0 (the kernel divides by hidden_size only)
TDivInt(a, n) ==
  IF a.k # "rat" \/ n <= 0 THEN Uninit ELSE Norm(a.n, a.d * n)

\* rsqrt(v + 1e-5)
RsqrtEps(v) == IF v.k # "rat" THEN Uninit ELSE [k |-> "rsqrt", v |-> v]

\* d * invstd * a + b
Affine(d, invstd, a, b) ==
  IF d.k # "rat" \/ invstd.k # "rsqrt" \/ a.k # "rat" \/ b.k # "rat"
  THEN Uninit
  ELSE [k |-> "affine", a |-> TMul(d, a), r |-> invstd, b |-> b]

\* ------------------------------------------------------------------------
\* Inputs.
\* ------------------------------------------------------------------------
XPat(p, i) == (p + 1) * (i + 1) + p * p

AlphaOf(i) == i + 2
BetaOf(i) == 2 * i + 1

\* ------------------------------------------------------------------------
\* Launch geometry and thread-private constants.
\* ------------------------------------------------------------------------
GridDimFor(bs) == (bs + BlockDimX - 1) \div BlockDimX

\* mutant of SharedElems: shared memory sized for one row's worker group
SharedElemsOneRow == BlockDimY

SharedElems == BlockDimX * BlockDimY

GridThreads(g) == (0 .. g - 1) \X (0 .. BlockDimX - 1) \X (0 .. BlockDimY - 1)

Threads == DOMAIN th

blockIdx(t) == t[1]
threadIdxX(t) == t[2]
threadIdxY(t) == t[3]

batch(t) == BlockDimX * blockIdx(t) + threadIdxX(t)
index(t) == threadIdxY(t)
stride == BlockDimY
\* mutant of batch_idx: the row's offset taken from its place in the block
batch_idx_block_local(t) == threadIdxX(t) * hidden_size

batch_idx(t) == batch(t) * hidden_size
\* mutant of batch_block_idx: the row's region not scaled by the group size
batch_block_idx_unscaled(t) == threadIdxX(t)

batch_block_idx(t) == threadIdxX(t) * stride

ReadX(i) == IF i \in DOMAIN x THEN Rat(x[i]) ELSE Uninit
ReadAlpha(i) == IF i \in DOMAIN alpha THEN Rat(alpha[i]) ELSE Uninit
ReadBeta(i) == IF i \in DOMAIN beta THEN Rat(beta[i]) ELSE Uninit
ReadShared(b, i) == IF i \in DOMAIN shared[b] THEN shared[b][i] ELSE Uninit

\* ------------------------------------------------------------------------
\* Barrier: __syncthreads() releases a thread when every thread of its
\* block that has not exited has executed as many barriers as it has: a
\* thread that returned at line 32 no longer takes part in the barrier.
\* ------------------------------------------------------------------------
\* mutants of BarrierGroup: no barrier at all; a barrier across the grid
BarrierGroupSelf(t) == {t}

BarrierGroupGrid(t) == Threads

BarrierGroup(t) == {u \in Threads : blockIdx(u) = blockIdx(t)}

\* mutant of Arrived: the barrier also waits for the threads that returned
ArrivedNotExited(u, n, st) == st[u].nbar >= n

Arrived(u, n, st) ==
  \/ st[u].nbar >= n
  \/ st[u].pc = "exit"

BarrierOpenIn(t, st) == \A u \in BarrierGroup(t) : Arrived(u, st[t].nbar, st)

\* mutant of BarrierOpen: no __syncthreads() at line 58
BarrierOpenNotAtL58(t) == th[t].pc = "L58" \/ BarrierOpenIn(t, th)

BarrierOpen(t) == BarrierOpenIn(t, th)

\* ------------------------------------------------------------------------
\* The kernel's code between barriers.
\* ------------------------------------------------------------------------
WriteAt(arr, i, v) == IF i \in DOMAIN arr THEN [arr EXCEPT ![i] = v] ELSE arr

\* for (int i = index; i < hidden_size; i += stride) sum += x[batch_idx + i];
RECURSIVE SumLoop(_, _, _)
SumLoop(t, i, sum) ==
  IF i >= hidden_size THEN sum
  ELSE SumLoop(t, i + stride, TAdd(sum, ReadX(batch_idx(t) + i)))

\* for (...) { diff = x[batch_idx + i] - mean; sumsq += diff * diff; }
RECURSIVE SumSqLoop(_, _, _, _)
SumSqLoop(t, i, mean, sumsq) ==
  IF i >= hidden_size THEN sumsq
  ELSE LET diff == TSub(ReadX(batch_idx(t) + i), mean)
       IN SumSqLoop(t, i + stride, mean, TAdd(sumsq, TMul(diff, diff)))

\* mutant of TreeStep: if (index <= s)
TreeStepInclusive(t, s, sh) ==
  IF index(t) <= s
  THEN LET a == batch_block_idx(t) + index(t)
           lhs == IF a \in DOMAIN sh THEN sh[a] ELSE Uninit
           rhs == IF a + s \in DOMAIN sh THEN sh[a + s] ELSE Uninit
       IN WriteAt(sh, a, TAdd(lhs, rhs))
  ELSE sh

\* if (index < s) shared[bbi + index] += shared[bbi + index + s];
TreeStep(t, s, sh) ==
  IF index(t) < s
  THEN LET a == batch_block_idx(t) + index(t)
           lhs == IF a \in DOMAIN sh THEN sh[a] ELSE Uninit
           rhs == IF a + s \in DOMAIN sh THEN sh[a + s] ELSE Uninit
       IN WriteAt(sh, a, TAdd(lhs, rhs))
  ELSE sh

\* the s with which the tree loop's next iteration runs (0: the loop is over)
NextS(t) ==
  IF th[t].pc \in {"L48", "L67"} THEN stride \div 2 ELSE th[t].s \div 2

Mean(t) == TDivInt(ReadShared(blockIdx(t), batch_block_idx(t)), hidden_size)

InvStd(t) ==
  RsqrtEps(TDivInt(ReadShared(blockIdx(t), batch_block_idx(t)), hidden_size))

\* the columns visited by for (int i = index; i < hidden_size; i += stride)
RECURSIVE LoopCols(_, _)
LoopCols(t, i) ==
  IF i >= hidden_size THEN {} ELSE {i} \cup LoopCols(t, i + stride)

\* mutant of YElem: alpha and beta indexed like x, by batch_idx + i
YElemFlatIndex(t, i, mean, invstd) ==
  Affine(TSub(ReadX(batch_idx(t) + i), mean), invstd,
         ReadAlpha(batch_idx(t) + i), ReadBeta(batch_idx(t) + i))

\* y[batch_idx + i] = (x[batch_idx + i] - mean) * invstd * alpha[i] + beta[i];
YElem(t, i, mean, invstd) ==
  Affine(TSub(ReadX(batch_idx(t) + i), mean), invstd, ReadAlpha(i), ReadBeta(i))

RECURSIVE YLoop(_, _, _, _, _)
YLoop(t, i, mean, invstd, yy) ==
  IF i >= hidden_size THEN yy
  ELSE YLoop(t, i + stride, mean, invstd,
             WriteAt(yy, batch_idx(t) + i, YElem(t, i, mean, invstd)))

\* mutant of CacheStore: the slot taken from the row's place in its block
CacheStoreBlockLocal(t, mean, invstd, cc) ==
  WriteAt(WriteAt(cc, threadIdxX(t) * 2 + 0, mean), threadIdxX(t) * 2 + 1, invstd)

\* cache[batch * 2 + 0] = mean; cache[batch * 2 + 1] = invstd;
CacheStore(t, mean, invstd, cc) ==
  WriteAt(WriteAt(cc, batch(t) * 2 + 0, mean), batch(t) * 2 + 1, invstd)

\* ------------------------------------------------------------------------
\* The memory accesses of a thread's code between two barriers, each as
\* <<array, index, "r" or "w">>.
\* ------------------------------------------------------------------------
\* x[batch_idx + i] in the loops of lines 45, 63 and 77
XReads(t) == {<<"x", batch_idx(t) + i, "r">> : i \in LoopCols(t, index(t))}

\* lines 44-47 and lines 61-66
PartialAccess(t) == XReads(t) \cup {<<"shared", batch_block_idx(t) + index(t), "w">>}

\* lines 51-52 and lines 70-71
TreeAccess(t, s) ==
  IF index(t) < s
  THEN {<<"shared", batch_block_idx(t) + index(t), "r">>,
        <<"shared", batch_block_idx(t) + index(t) + s, "r">>,
        <<"shared", batch_block_idx(t) + index(t), "w">>}
  ELSE {}

\* line 57
MeanAccess(t) == {<<"shared", batch_block_idx(t), "r">>}

\* lines 75-81
FinishAccess(t) ==
  {<<"shared", batch_block_idx(t), "r">>}
    \cup XReads(t)
    \cup {<<"alpha", i, "r">> : i \in LoopCols(t, index(t))}
    \cup {<<"beta", i, "r">> : i \in LoopCols(t, index(t))}
    \cup {<<"y", batch_idx(t) + i, "w">> : i \in LoopCols(t, index(t))}
    \cup {<<"cache", batch(t) * 2 + 0, "w">>, <<"cache", batch(t) * 2 + 1, "w">>}

\* the accesses of the code a thread executed last, and the number of
\* barriers it had executed before that code
LastAccess(t) ==
  CASE th[t].pc \in {"L48", "L67"} -> PartialAccess(t)
    [] th[t].pc \in {"L53", "L72"} -> TreeAccess(t, th[t].s)
    [] th[t].pc = "L58" -> MeanAccess(t)
    [] th[t].pc = "done" -> FinishAccess(t)
    [] OTHER -> {}

LastInterval(t) == IF th[t].pc = "done" THEN th[t].nbar ELSE th[t].nbar - 1

\* ------------------------------------------------------------------------
\* Initial state: a ForwardPass has been constructed and the caller holds
\* the buffers it will pass to Run.
\* ------------------------------------------------------------------------
RowsOf(bs) == 0 .. bs - 1

XFrom(bs, hs, p) ==
  [k \in 0 .. bs * hs - 1 |-> XPat(p[k \div hs], k % hs)]

LnInit ==
  /\ batch_size \in 1 .. MaxBatch
  /\ hidden_size \in 1 .. MaxHidden
  /\ \E p \in [RowsOf(batch_size) -> 0 .. MaxPattern - 1] :
       x = XFrom(batch_size, hidden_size, p)
  /\ alpha = [i \in 0 .. hidden_size - 1 |-> AlphaOf(i)]
  /\ beta = [i \in 0 .. hidden_size - 1 |-> BetaOf(i)]
  /\ y = [k \in 0 .. batch_size * hidden_size - 1 |-> Uninit]
  /\ cache = [k \in 0 .. 2 * batch_size - 1 |-> Uninit]
  /\ launched = 0
  /\ gridDimX = 0
  /\ th = << >>
  /\ shared = << >>
  /\ ywr = {}
  /\ cwr = {}
  /\ x0 = << >>
  /\ y0 = << >>
  /\ cache0 = << >>

\* ------------------------------------------------------------------------
\* ForwardPass<T>::Run: the launch.
\* ------------------------------------------------------------------------
Launch ==
  /\ gridDimX' = GridDimFor(batch_size)
  /\ th' = [t \in GridThreads(GridDimFor(batch_size)) |->
              [pc |-> "L30", s |-> 0, nbar |-> 0, mean |-> Uninit]]
  /\ shared' = [b \in 0 .. GridDimFor(batch_size) - 1 |->
                  [k \in 0 .. SharedElems - 1 |-> Uninit]]
  /\ launched' = launched + 1
  /\ ywr' = {}
  /\ cwr' = {}

Run ==
  /\ launched = 0
  /\ Launch
  /\ UNCHANGED <<batch_size, hidden_size, alpha, beta, x, y, cache, x0, y0, cache0, gruvars>>

\* Run called a second time on the same ForwardPass once the first kernel has
\* completed, with another input of the same shape and fresh output buffers;
\* the first call's input and results are kept for comparison.
KernelDone == launched > 0 /\ \A t \in Threads : th[t].pc \in {"exit", "done"}

RunAgain ==
  /\ launched = 1
  /\ KernelDone
  /\ \E p \in [RowsOf(batch_size) -> 0 .. MaxPattern - 1] :
       x' = XFrom(batch_size, hidden_size, p)
  /\ x0' = x
  /\ y0' = y
  /\ cache0' = cache
  /\ y' = [k \in DOMAIN y |-> Uninit]
  /\ cache' = [k \in DOMAIN cache |-> Uninit]
  /\ Launch
  /\ UNCHANGED <<batch_size, hidden_size, alpha, beta, gruvars>>

\* ------------------------------------------------------------------------
\* Thread steps.
\* ------------------------------------------------------------------------
Host == <<batch_size, hidden_size, alpha, beta, x, launched, gridDimX,
          x0, y0, cache0, gruvars>>

\* lines 30-32: a thread past the last row returns
EarlyReturn(t) ==
  /\ th[t].pc = "L30"
  /\ batch(t) >= batch_size
  /\ th' = [th EXCEPT ![t].pc = "exit"]
  /\ UNCHANGED <<Host, shared, y, cache, ywr, cwr>>

\* lines 30-48: partial sum of the thread's columns, up to the first barrier
ReduceSum(t) ==
  /\ th[t].pc = "L30"
  /\ batch(t) < batch_size
  /\ shared' = [shared EXCEPT ![blockIdx(t)] =
                  WriteAt(@, batch_block_idx(t) + index(t), SumLoop(t, index(t), Rat(0)))]
  /\ th' = [th EXCEPT ![t].pc = "L48", ![t].nbar = @ + 1]
  /\ UNCHANGED <<Host, y, cache, ywr, cwr>>

\* lines 50-53: one iteration of the first tree reduction
TreeReduce1(t) ==
  /\ th[t].pc \in {"L48", "L53"}
  /\ BarrierOpen(t)
  /\ NextS(t) > 0
  /\ shared' = [shared EXCEPT ![blockIdx(t)] = TreeStep(t, NextS(t), @)]
  /\ th' = [th EXCEPT ![t].pc = "L53", ![t].s = NextS(t), ![t].nbar = @ + 1]
  /\ UNCHANGED <<Host, y, cache, ywr, cwr>>

\* lines 57-58: the mean is read from the row's slot 0
ReadMean(t) ==
  /\ th[t].pc \in {"L48", "L53"}
  /\ BarrierOpen(t)
  /\ NextS(t) = 0
  /\ th' = [th EXCEPT ![t].pc = "L58", ![t].s = 0, ![t].mean = Mean(t), ![t].nbar = @ + 1]
  /\ UNCHANGED <<Host, shared, y, cache, ywr, cwr>>

\* lines 61-67: partial sum of squared deviations
ReduceSumSq(t) ==
  /\ th[t].pc = "L58"
  /\ BarrierOpen(t)
  /\ shared' = [shared EXCEPT ![blockIdx(t)] =
                  WriteAt(@, batch_block_idx(t) + index(t),
                          SumSqLoop(t, index(t), th[t].mean, Rat(0)))]
  /\ th' = [th EXCEPT ![t].pc = "L67", ![t].nbar = @ + 1]
  /\ UNCHANGED <<Host, y, cache, ywr, cwr>>

\* lines 69-72: one iteration of the second tree reduction
TreeReduce2(t) ==
  /\ th[t].pc \in {"L67", "L72"}
  /\ BarrierOpen(t)
  /\ NextS(t) > 0
  /\ shared' = [shared EXCEPT ![blockIdx(t)] = TreeStep(t, NextS(t), @)]
  /\ th' = [th EXCEPT ![t].pc = "L72", ![t].s = NextS(t), ![t].nbar = @ + 1]
  /\ UNCHANGED <<Host, y, cache, ywr, cwr>>

\* lines 75-81: invstd, the row's y elements, the row's cache entries
Finish(t) ==
  /\ th[t].pc \in {"L67", "L72"}
  /\ BarrierOpen(t)
  /\ NextS(t) = 0
  /\ LET invstd == InvStd(t)
         mean == th[t].mean
     IN /\ y' = YLoop(t, index(t), mean, invstd, y)
        /\ ywr' = ywr \cup {<<batch_idx(t) + i, t>> : i \in LoopCols(t, index(t))}
        /\ cache' = CacheStore(t, mean, invstd, cache)
        /\ cwr' = cwr \cup {<<batch(t) * 2 + 0, mean>>, <<batch(t) * 2 + 1, invstd>>}
  /\ th' = [th EXCEPT ![t].pc = "done", ![t].s = 0]
  /\ UNCHANGED <<Host, shared>>

\* ========================================================================
\* The GRU inference driver (examples/gru.cc).
\*
\* The host runs main and GruInference statement by statement.  Device work
\* is submitted to one in-order queue and executed asynchronously, one
\* operation at a time.  device_ptr and ForwardPass<float>::Iterate are
\* declared in device_ptr.h and haste.h; their behaviour is taken from the
\* design document (sections 4.1, 4.2 and 5).  Buffer contents are symbolic
\* terms, so that what an operation read can be told from what it wrote.
\* ========================================================================
BATCH_SIZE == 64
HIDDEN_DIMS == 512
INPUT_DIMS == 512

\* x.dimension(1), x.dimension(0), R.dimension(1) for the tensors of main
g_batch_size == BATCH_SIZE
g_input_size == INPUT_DIMS
g_hidden_size == HIDDEN_DIMS

Buffers == {"W_dev", "R_dev", "bx_dev", "br_dev", "x_dev", "h_dev", "tmp_Wx_dev",
            "tmp_Rh_dev"}

\* the device_ptr declarations of GruInference, in order
Decls == <<"W_dev", "R_dev", "bx_dev", "br_dev", "x_dev", "h_dev", "tmp_Wx_dev",
           "tmp_Rh_dev">>

DeclLabels == <<"L77", "L78", "L79", "L80", "L81", "L83", "L84", "L85">>

CopiedFromHost == {"W_dev", "R_dev", "bx_dev", "br_dev", "x_dev"}

\* element count of each buffer
SizeOf(b) ==
  CASE b = "W_dev" -> HIDDEN_DIMS * 3 * INPUT_DIMS
    [] b = "R_dev" -> HIDDEN_DIMS * 3 * HIDDEN_DIMS
    [] b = "bx_dev" -> HIDDEN_DIMS * 3
    [] b = "br_dev" -> HIDDEN_DIMS * 3
    [] b = "x_dev" -> g_input_size * g_batch_size * time_steps
    [] b = "h_dev" -> g_batch_size * g_hidden_size
    [] b = "tmp_Wx_dev" -> time_steps * g_batch_size * g_hidden_size * 3
    [] b = "tmp_Rh_dev" -> g_batch_size * g_hidden_size * 3

Undef == [op |-> "undef"]
Zero == [op |-> "zero"]

NoBuffer == [live |-> FALSE, size |-> 0, val |-> Undef]

\* device_ptr constructors: allocate; the host-tensor form copies in, the
\* scratch form leaves the contents undefined
InitialContents(b) ==
  CASE b \in CopiedFromHost -> [op |-> "host", of |-> b]
    [] b = "tmp_Wx_dev" -> [k \in 0 .. time_steps - 1 |-> Undef]
    [] OTHER -> Undef

Allocate(b) == [live |-> TRUE, size |-> SizeOf(b), val |-> InitialContents(b)]

\* device_ptr's destructor frees the allocation
Release(d, b) == [d EXCEPT ![b] = NoBuffer]

\* automatic storage: an object constructed in the scope is destroyed when
\* the scope is left, the last constructed first
\* mutant of Construct: the recurrent scratch buffer is not owned by the scope
ConstructUnowned(sc, obj) == IF obj = "tmp_Rh_dev" THEN sc ELSE Append(sc, obj)

Construct(sc, obj) == Append(sc, obj)

LastConstructed(sc) == sc[Len(sc)]

\* for (int t = 0; t < time_steps; ++t)
\* mutants of LoopCond: t <= time_steps; the test made after the body
LoopCondInclusive(k) == k <= time_steps

LoopCondDoWhile(k) == k = 0 \/ k < time_steps

LoopCond(k) == k < time_steps

\* the arguments of forward.Iterate at timestep k (lines 98-112)
\* mutant of IterateArgs: the new hidden state goes to another buffer
IterateArgsSplit(k) ==
  [W |-> "W_dev", R |-> "R_dev", bx |-> "bx_dev", br |-> "br_dev",
   x |-> "x_dev", x_off |-> k * g_batch_size * g_input_size,
   h |-> "h_dev", h_out |-> "tmp_Rh_dev",
   v_out |-> "nullptr",
   tmp_Wx |-> "tmp_Wx_dev", tmp_Wx_off |-> k * g_batch_size * g_hidden_size * 3,
   tmp_Rh |-> "tmp_Rh_dev",
   zoneout_prob |-> 0, zoneout_mask |-> "nullptr"]

\* mutant of IterateArgs: the slices taken one timestep further on
IterateArgsOffByOne(k) ==
  [W |-> "W_dev", R |-> "R_dev", bx |-> "bx_dev", br |-> "br_dev",
   x |-> "x_dev", x_off |-> (k + 1) * g_batch_size * g_input_size,
   h |-> "h_dev", h_out |-> "h_dev",
   v_out |-> "nullptr",
   tmp_Wx |-> "tmp_Wx_dev", tmp_Wx_off |-> (k + 1) * g_batch_size * g_hidden_size * 3,
   tmp_Rh |-> "tmp_Rh_dev",
   zoneout_prob |-> 0, zoneout_mask |-> "nullptr"]

IterateArgs(k) ==
  [W |-> "W_dev", R |-> "R_dev", bx |-> "bx_dev", br |-> "br_dev",
   x |-> "x_dev", x_off |-> k * g_batch_size * g_input_size,
   h |-> "h_dev", h_out |-> "h_dev",
   v_out |-> "nullptr",
   tmp_Wx |-> "tmp_Wx_dev", tmp_Wx_off |-> k * g_batch_size * g_hidden_size * 3,
   tmp_Rh |-> "tmp_Rh_dev",
   zoneout_prob |-> 0, zoneout_mask |-> "nullptr"]

\* Iterate: the operations it submits, in order (design document, 4.2)
IterateOps(k, a) ==
  << [op |-> "gemm_Wx", t |-> k, a |-> a],
     [op |-> "gemm_Rh", t |-> k, a |-> a],
     [op |-> "pointwise", t |-> k, a |-> a] >>

\* the buffers an operation of Iterate reads or writes (design document, 4.2)
OpBuffers(o) ==
  CASE o.op = "gemm_Wx" -> {o.a.W, o.a.x, o.a.tmp_Wx}
    [] o.op = "gemm_Rh" -> {o.a.R, o.a.h, o.a.tmp_Rh}
    [] o.op = "pointwise" -> {o.a.h, o.a.h_out, o.a.tmp_Wx, o.a.tmp_Rh, o.a.bx, o.a.br}
    [] OTHER -> {}

\* the slice of the input pre-activation buffer an Iterate call was given
SliceOf(a) == a.tmp_Wx_off \div (g_batch_size * g_hidden_size * 3)

GruInit ==
  /\ time_steps \in 0 .. MaxSteps
  /\ gpc = "L119"
  /\ loop_t = 0
  /\ scope = << >>
  /\ blas = "none"
  /\ queue = << >>
  /\ dev = [b \in Buffers |-> NoBuffer]
  /\ allocs = [b \in Buffers |-> 0]
  /\ frees = [b \in Buffers |-> 0]
  /\ submitted = << >>
  /\ calls = << >>
  /\ lastOp = [op |-> "none"]
  /\ eventsDone = {}

\* ------------------------------------------------------------------------
\* Host steps.
\* ------------------------------------------------------------------------
\* mutant of BlasCreate: main goes on without creating the handle
BlasCreateMissing ==
  /\ gpc = "L119"
  /\ blas' = blas
  /\ gpc' = "L77"
  /\ UNCHANGED <<lnvars, time_steps, loop_t, scope, queue, dev, allocs, frees,
                 submitted, calls, lastOp, eventsDone>>

\* line 119
BlasCreate ==
  /\ gpc = "L119"
  /\ blas' = "created"
  /\ gpc' = "L77"
  /\ UNCHANGED <<lnvars, time_steps, loop_t, scope, queue, dev, allocs, frees,
                 submitted, calls, lastOp, eventsDone>>

\* lines 77-85: the device_ptr declared at the host's position is constructed
DeclareBuffer ==
  /\ \E i \in 1 .. Len(Decls) :
       /\ gpc = DeclLabels[i]
       /\ dev' = [dev EXCEPT ![Decls[i]] = Allocate(Decls[i])]
       /\ allocs' = [allocs EXCEPT ![Decls[i]] = @ + 1]
       /\ scope' = Construct(scope, Decls[i])
       /\ gpc' = IF i = Len(Decls) THEN "L87" ELSE DeclLabels[i + 1]
  /\ UNCHANGED <<lnvars, time_steps, loop_t, blas, queue, frees, submitted, calls,
                 lastOp, eventsDone>>

\* line 87: h_dev.zero()
ZeroH ==
  /\ gpc = "L87"
  /\ queue' = Append(queue, [op |-> "memset", buf |-> "h_dev"])
  /\ gpc' = "L89"
  /\ UNCHANGED <<lnvars, time_steps, loop_t, scope, blas, dev, allocs, frees,
                 submitted, calls, lastOp, eventsDone>>

\* line 89, ScopeTimer's constructor (lines 48-53): the device is idle
\* before the start event is recorded
TimerStart ==
  /\ gpc = "L89"
  /\ queue = << >>
  /\ queue' = Append(queue, [op |-> "event", ev |-> "start_"])
  /\ scope' = Construct(scope, "t")
  /\ gpc' = "L90"
  /\ UNCHANGED <<lnvars, time_steps, loop_t, blas, dev, allocs, frees,
                 submitted, calls, lastOp, eventsDone>>

\* lines 90-95
ForwardConstruct ==
  /\ gpc = "L90"
  /\ scope' = Construct(scope, "forward")
  /\ loop_t' = 0
  /\ gpc' = "L97"
  /\ UNCHANGED <<lnvars, time_steps, blas, queue, dev, allocs, frees,
                 submitted, calls, lastOp, eventsDone>>

\* lines 97-113: one pass of the loop body; the call returns once the
\* operations are submitted
IterateCall ==
  /\ gpc = "L97"
  /\ LoopCond(loop_t)
  /\ queue' = queue \o IterateOps(loop_t, IterateArgs(loop_t))
  /\ submitted' = Append(submitted, loop_t)
  /\ calls' = Append(calls, IterateArgs(loop_t))
  /\ loop_t' = loop_t + 1
  /\ UNCHANGED <<lnvars, time_steps, gpc, scope, blas, dev, allocs, frees,
                 lastOp, eventsDone>>

\* Iterate called by a caller that uses zoneout (design document, 4.2 step 4
\* and section 8): the same loop, with a zoneout probability and a mask
\* pointer chosen per call.  A mask is named by the units it keeps.
NumUnits == 2

Units == 0 .. NumUnits - 1

Masks == {"nullptr", "keep_none", "keep_0", "keep_1", "keep_0_1"}

MaskKeeps(m) ==
  CASE m = "keep_0" -> {0}
    [] m = "keep_1" -> {1}
    [] m = "keep_0_1" -> {0, 1}
    [] OTHER -> {}

\* 0.0f and a positive probability
ZoneoutProbs == {0, 1}

IterateCallZoneout ==
  /\ gpc = "L97"
  /\ LoopCond(loop_t)
  /\ \E zp \in ZoneoutProbs, zm \in Masks :
       LET a == [IterateArgs(loop_t) EXCEPT !.zoneout_prob = zp, !.zoneout_mask = zm]
       IN /\ queue' = queue \o IterateOps(loop_t, a)
          /\ calls' = Append(calls, a)
  /\ submitted' = Append(submitted, loop_t)
  /\ loop_t' = loop_t + 1
  /\ UNCHANGED <<lnvars, time_steps, gpc, scope, blas, dev, allocs, frees,
                 lastOp, eventsDone>>

\* line 97: the loop ends
LoopExit ==
  /\ gpc = "L97"
  /\ ~LoopCond(loop_t)
  /\ gpc' = "L114"
  /\ UNCHANGED <<lnvars, time_steps, loop_t, scope, blas, queue, dev, allocs,
                 frees, submitted, calls, lastOp, eventsDone>>

\* line 114: forward is destroyed
ForwardDestroy ==
  /\ gpc = "L114"
  /\ scope # << >>
  /\ LastConstructed(scope) = "forward"
  /\ scope' = SubSeq(scope, 1, Len(scope) - 1)
  /\ UNCHANGED <<lnvars, time_steps, gpc, loop_t, blas, queue, dev, allocs,
                 frees, submitted, calls, lastOp, eventsDone>>

\* line 114, ScopeTimer's destructor, line 57: the stop event is recorded
TimerStop ==
  /\ gpc = "L114"
  /\ scope # << >>
  /\ LastConstructed(scope) = "t"
  /\ queue' = Append(queue, [op |-> "event", ev |-> "stop_"])
  /\ gpc' = "L58"
  /\ UNCHANGED <<lnvars, time_steps, loop_t, scope, blas, dev, allocs, frees,
                 submitted, calls, lastOp, eventsDone>>

\* mutant of TimerWait: the destructor does not wait for the stop event
TimerWaitNoSync ==
  /\ gpc = "L58"
  /\ scope' = SubSeq(scope, 1, Len(scope) - 1)
  /\ gpc' = "L114"
  /\ UNCHANGED <<lnvars, time_steps, loop_t, blas, queue, dev, allocs, frees,
                 submitted, calls, lastOp, eventsDone>>

\* ScopeTimer's destructor, lines 58-62: the host waits for the stop event
TimerWait ==
  /\ gpc = "L58"
  /\ "stop_" \in eventsDone
  /\ scope' = SubSeq(scope, 1, Len(scope) - 1)
  /\ gpc' = "L114"
  /\ UNCHANGED <<lnvars, time_steps, loop_t, blas, queue, dev, allocs, frees,
                 submitted, calls, lastOp, eventsDone>>

\* line 114: a device_ptr is destroyed, which frees its allocation
BufferDestroy ==
  /\ gpc = "L114"
  /\ scope # << >>
  /\ LastConstructed(scope) \in Buffers
  /\ LET b == LastConstructed(scope)
     IN /\ dev' = Release(dev, b)
        /\ frees' = [frees EXCEPT ![b] = @ + 1]
  /\ scope' = SubSeq(scope, 1, Len(scope) - 1)
  /\ UNCHANGED <<lnvars, time_steps, gpc, loop_t, blas, queue, allocs,
                 submitted, calls, lastOp, eventsDone>>

\* line 114: GruInference returns to main
Return ==
  /\ gpc = "L114"
  /\ scope = << >>
  /\ gpc' = "L138"
  /\ UNCHANGED <<lnvars, time_steps, loop_t, scope, blas, queue, dev, allocs,
                 frees, submitted, calls, lastOp, eventsDone>>

\* line 138
BlasDestroy ==
  /\ gpc = "L138"
  /\ blas' = "destroyed"
  /\ gpc' = "done"
  /\ UNCHANGED <<lnvars, time_steps, loop_t, scope, queue, dev, allocs, frees,
                 submitted, calls, lastOp, eventsDone>>

\* ------------------------------------------------------------------------
\* Device steps: the operation at the head of the queue executes.
\* ------------------------------------------------------------------------
Contents(b) == IF dev[b].live THEN dev[b].val ELSE Undef

Store(d, b, v) == IF d[b].live THEN [d EXCEPT ![b].val = v] ELSE d

DevHead(kind) == queue # << >> /\ Head(queue).op = kind

DevFrame == <<lnvars, time_steps, gpc, loop_t, scope, blas, allocs, frees,
              submitted, calls>>

DevMemset ==
  /\ DevHead("memset")
  /\ dev' = Store(dev, Head(queue).buf, Zero)
  /\ lastOp' = Head(queue)
  /\ queue' = Tail(queue)
  /\ UNCHANGED <<DevFrame, eventsDone>>

DevEvent ==
  /\ DevHead("event")
  /\ eventsDone' = eventsDone \cup {Head(queue).ev}
  /\ lastOp' = Head(queue)
  /\ queue' = Tail(queue)
  /\ UNCHANGED <<DevFrame, dev>>

\* step 1 of Iterate: tmp_Wx_cur = GEMM(x_t, W)
DevGemmWx ==
  /\ DevHead("gemm_Wx")
  /\ LET a == Head(queue).a
         v == [op |-> "Wx", W |-> Contents(a.W), x |-> Contents(a.x), x_off |-> a.x_off]
         cur == Contents(a.tmp_Wx)
     IN dev' = IF SliceOf(a) \in DOMAIN cur
               THEN Store(dev, a.tmp_Wx, [cur EXCEPT ![SliceOf(a)] = v])
               ELSE dev
  /\ lastOp' = Head(queue)
  /\ queue' = Tail(queue)
  /\ UNCHANGED <<DevFrame, eventsDone>>

\* step 2 of Iterate: tmp_Rh = GEMM(h, R)
DevGemmRh ==
  /\ DevHead("gemm_Rh")
  /\ LET a == Head(queue).a
     IN dev' = Store(dev, a.tmp_Rh, [op |-> "Rh", R |-> Contents(a.R), h |-> Contents(a.h)])
  /\ lastOp' = Head(queue)
  /\ queue' = Tail(queue)
  /\ UNCHANGED <<DevFrame, eventsDone>>

\* mutants of DevPointwise: the mask is applied whenever one is supplied,
\* whatever the probability; the mask is never applied
DevPointwiseMaskOnly ==
  /\ DevHead("pointwise")
  /\ LET a == Head(queue).a
         wx == Contents(a.tmp_Wx)
         new == [op |-> "gru",
                 h |-> Contents(a.h),
                 Wx |-> IF SliceOf(a) \in DOMAIN wx THEN wx[SliceOf(a)] ELSE Undef,
                 Rh |-> Contents(a.tmp_Rh),
                 bx |-> Contents(a.bx),
                 br |-> Contents(a.br)]
         kept == [op |-> "zoneout", mask |-> a.zoneout_mask, old |-> Contents(a.h), new |-> new]
     IN dev' = Store(dev, a.h_out, IF a.zoneout_mask # "nullptr" THEN kept ELSE new)
  /\ lastOp' = Head(queue)
  /\ queue' = Tail(queue)
  /\ UNCHANGED <<DevFrame, eventsDone>>

DevPointwiseNoZoneout ==
  /\ DevHead("pointwise")
  /\ LET a == Head(queue).a
         wx == Contents(a.tmp_Wx)
         new == [op |-> "gru",
                 h |-> Contents(a.h),
                 Wx |-> IF SliceOf(a) \in DOMAIN wx THEN wx[SliceOf(a)] ELSE Undef,
                 Rh |-> Contents(a.tmp_Rh),
                 bx |-> Contents(a.bx),
                 br |-> Contents(a.br)]
     IN dev' = Store(dev, a.h_out, new)
  /\ lastOp' = Head(queue)
  /\ queue' = Tail(queue)
  /\ UNCHANGED <<DevFrame, eventsDone>>

\* steps 3-5 of Iterate: the gates; zoneout only with a positive probability
\* and a mask; no cache in inference mode
DevPointwise ==
  /\ DevHead("pointwise")
  /\ LET a == Head(queue).a
         wx == Contents(a.tmp_Wx)
         new == [op |-> "gru",
                 h |-> Contents(a.h),
                 Wx |-> IF SliceOf(a) \in DOMAIN wx THEN wx[SliceOf(a)] ELSE Undef,
                 Rh |-> Contents(a.tmp_Rh),
                 bx |-> Contents(a.bx),
                 br |-> Contents(a.br)]
         kept == [op |-> "zoneout", mask |-> a.zoneout_mask, old |-> Contents(a.h), new |-> new]
     IN dev' = Store(dev, a.h_out,
                     IF a.zoneout_prob > 0 /\ a.zoneout_mask # "nullptr" THEN kept ELSE new)
  /\ lastOp' = Head(queue)
  /\ queue' = Tail(queue)
  /\ UNCHANGED <<DevFrame, eventsDone>>


vars == <<lnvars, gruvars>>

\* the kernel's side while the driver runs, and the driver's while the
\* kernel runs
LnIdle == LnInit /\ batch_size = 1 /\ hidden_size = 1 /\ x[0] = XPat(0, 0)

GruIdle == GruInit /\ time_steps = 0

Init == LnInit /\ GruIdle

Next ==
  \/ Run
  \/ \E t \in Threads : EarlyReturn(t)
  \/ \E t \in Threads : ReduceSum(t)
  \/ \E t \in Threads : TreeReduce1(t)
  \/ \E t \in Threads : ReadMean(t)
  \/ \E t \in Threads : ReduceSumSq(t)
  \/ \E t \in Threads : TreeReduce2(t)
  \/ \E t \in Threads : Finish(t)

Spec == Init /\ [][Next]_vars

\* the launch under the device's scheduling: while some thread of the grid
\* can run, the device runs one.  No branch of the kernel depends on the
\* values of x, so one input per shape is followed.
InitLive == Init /\ x = XFrom(batch_size, hidden_size, [b \in RowsOf(batch_size) |-> 0])

\* the steps of Next, those with the least arithmetic first
Scheduled ==
  \/ Run
  \/ \E t \in Threads : EarlyReturn(t)
  \/ \E t \in Threads : ReadMean(t)
  \/ \E t \in Threads : TreeReduce1(t)
  \/ \E t \in Threads : TreeReduce2(t)
  \/ \E t \in Threads : ReduceSum(t)
  \/ \E t \in Threads : Finish(t)
  \/ \E t \in Threads : ReduceSumSq(t)

SpecLive == InitLive /\ [][Next]_vars /\ WF_vars(Scheduled)

\* two launches on inputs of one shape
NextTwice ==
  \/ Run
  \/ RunAgain
  \/ \E t \in Threads : EarlyReturn(t)
  \/ \E t \in Threads : ReduceSum(t)
  \/ \E t \in Threads : TreeReduce1(t)
  \/ \E t \in Threads : ReadMean(t)
  \/ \E t \in Threads : ReduceSumSq(t)
  \/ \E t \in Threads : TreeReduce2(t)
  \/ \E t \in Threads : Finish(t)

SpecTwice == Init /\ [][NextTwice]_vars

\* the driver
InitGru == LnIdle /\ GruInit

NextGru ==
  \/ BlasCreate
  \/ DeclareBuffer
  \/ ZeroH
  \/ TimerStart
  \/ ForwardConstruct
  \/ IterateCall
  \/ LoopExit
  \/ ForwardDestroy
  \/ TimerStop
  \/ TimerWait
  \/ BufferDestroy
  \/ Return
  \/ BlasDestroy
  \/ DevMemset
  \/ DevEvent
  \/ DevGemmWx
  \/ DevGemmRh
  \/ DevPointwise

SpecGru == InitGru /\ [][NextGru]_vars

\* the driver's loop with zoneout arguments
NextZoneout ==
  \/ BlasCreate
  \/ DeclareBuffer
  \/ ZeroH
  \/ TimerStart
  \/ ForwardConstruct
  \/ IterateCallZoneout
  \/ LoopExit
  \/ ForwardDestroy
  \/ TimerStop
  \/ TimerWait
  \/ BufferDestroy
  \/ Return
  \/ BlasDestroy
  \/ DevMemset
  \/ DevEvent
  \/ DevGemmWx
  \/ DevGemmRh
  \/ DevPointwise

SpecZoneout == InitGru /\ [][NextZoneout]_vars

\* ------------------------------------------------------------------------
\* Reference values of a row, computed sequentially from the row's elements.
\* ------------------------------------------------------------------------
RowElem(b, i) == x[b * hidden_size + i]

RECURSIVE RowSumFrom(_, _)
RowSumFrom(b, i) ==
  IF i >= hidden_size THEN 0 ELSE RowElem(b, i) + RowSumFrom(b, i + 1)

RowSum(b) == Rat(RowSumFrom(b, 0))

RowMean(b) == Norm(RowSumFrom(b, 0), hidden_size)

\* sum of (x - mean)^2 = sum of (h*x - S)^2 / h^2, S the row's sum
RECURSIVE RowDevFrom(_, _)
RowDevFrom(b, i) ==
  IF i >= hidden_size THEN 0
  ELSE LET d == hidden_size * RowElem(b, i) - RowSumFrom(b, 0)
       IN d * d + RowDevFrom(b, i + 1)

RowSumSq(b) == Norm(RowDevFrom(b, 0), hidden_size * hidden_size)

RowInvStd(b) ==
  [k |-> "rsqrt",
   v |-> Norm(RowDevFrom(b, 0), hidden_size * hidden_size * hidden_size)]

RowY(b, i) ==
  [k |-> "affine",
   a |-> Norm((hidden_size * RowElem(b, i) - RowSumFrom(b, 0)) * alpha[i], hidden_size),
   r |-> RowInvStd(b),
   b |-> Rat(beta[i])]

SameRow(t, u) == blockIdx(t) = blockIdx(u) /\ threadIdxX(t) = threadIdxX(u)

Slot0(t) == ReadShared(blockIdx(t), batch_block_idx(t))

\* ------------------------------------------------------------------------
\* C1.  Whenever a thread reads its row's shared slot 0 to form the mean
\* (line 57), the slot holds the sum of all hidden_size elements of the
\* thread's row, and whenever it reads the slot to form invstd (line 75) the
\* slot holds the sum over the same elements of (x - mean)^2.
\* ------------------------------------------------------------------------
C1_SlotZeroHoldsRowSums ==
  [][\A t \in Threads :
       /\ ReadMean(t) => Slot0(t) = RowSum(batch(t))
       /\ Finish(t) => Slot0(t) = RowSumSq(batch(t))]_vars

\* a row longer than the worker group and no multiple of it has been reduced
\* in both phases, in a block that another row shares
C1_Witness ==
  /\ hidden_size > stride
  /\ hidden_size % stride # 0
  /\ \E t \in Threads :
       /\ th[t].pc = "done"
       /\ batch(t) > 0
       /\ cache[batch(t) * 2 + 1] = RowInvStd(batch(t))

\* ------------------------------------------------------------------------
\* C2.  When the kernel has completed, every y[b * hidden_size + i] with
\* b < batch_size and i < hidden_size equals
\* (x - mean_b) * invstd_b * alpha[i] + beta[i] and was written by exactly
\* one thread; at no time is a y element outside [0, batch_size*hidden_size)
\* written, or one element written by two threads.
\* ------------------------------------------------------------------------
YWriters(k) == {w \in ywr : w[1] = k}

C2_OutputIsNormalisedRow ==
  /\ \A w \in ywr : w[1] \in 0 .. batch_size * hidden_size - 1
  /\ \A k \in 0 .. batch_size * hidden_size - 1 : Cardinality(YWriters(k)) <= 1
  /\ KernelDone =>
       \A b \in RowsOf(batch_size) : \A i \in 0 .. hidden_size - 1 :
         /\ y[b * hidden_size + i] = RowY(b, i)
         /\ Cardinality(YWriters(b * hidden_size + i)) = 1

C2_Witness ==
  /\ KernelDone
  /\ batch_size = MaxBatch
  /\ hidden_size > stride
  /\ \E b1, b2 \in RowsOf(batch_size) : RowElem(b1, 0) # RowElem(b2, 0)

\* ------------------------------------------------------------------------
\* C3.  A thread that has read its row's slot 0 for the mean finds every
\* thread of the row's worker group past all of its phase-1 writes to
\* shared memory (the partial sum and every tree iteration); likewise a
\* thread that has read slot 0 for the variance and the phase-2 writes.
\* ------------------------------------------------------------------------
HasReadMean(t) == th[t].pc \in {"L58", "L67", "L72", "done"}
HasReadVar(t) == th[t].pc = "done"

Phase1WritesPending(u) ==
  \/ th[u].pc = "L30"
  \/ th[u].pc \in {"L48", "L53"} /\ NextS(u) > 0

Phase2WritesPending(u) ==
  \/ th[u].pc \in {"L30", "L48", "L53", "L58"}
  \/ th[u].pc \in {"L67", "L72"} /\ NextS(u) > 0

C3_ReadAfterAllWrites ==
  \A t, u \in Threads :
    SameRow(t, u) =>
      /\ HasReadMean(t) => ~Phase1WritesPending(u)
      /\ HasReadVar(t) => ~Phase2WritesPending(u)

\* one thread of a row has read the mean while another of the same row has
\* only just finished its last tree iteration
C3_Witness ==
  \E t, u \in Threads :
    /\ SameRow(t, u) /\ t # u
    /\ th[t].pc = "L58"
    /\ th[u].pc = "L53"

\* ------------------------------------------------------------------------
\* C4.  Who waits for whom at a barrier.  A thread at a barrier waits for u
\* when it stays blocked even if every thread other than u had arrived.
\* ------------------------------------------------------------------------
AtBarrier(t) == th[t].pc \in {"L48", "L53", "L58", "L67", "L72"}

AllArrivedBut(u, n) ==
  [v \in Threads |-> IF v = u THEN th[v] ELSE [th[v] EXCEPT !.nbar = n]]

WaitsFor(t, u) ==
  /\ u # t
  /\ AtBarrier(t)
  /\ ~BarrierOpenIn(t, AllArrivedBut(u, th[t].nbar))

WorksOnRow(t) == batch(t) < batch_size

\* C4 as claimed: no thread working on row b waits at a barrier for a thread
\* working on a different row b'.
C4_NoCrossRowWait ==
  \A t, u \in Threads :
    (WorksOnRow(t) /\ WorksOnRow(u) /\ WaitsFor(t, u)) => batch(t) = batch(u)

\* C4 as amended: no thread working on row b waits at a barrier for a thread
\* working on a row of another block; the rows of one block share the
\* block's barriers.
C4_NoCrossBlockWait ==
  \A t, u \in Threads :
    (WorksOnRow(t) /\ WorksOnRow(u) /\ WaitsFor(t, u)) => blockIdx(t) = blockIdx(u)

\* a thread is held at a barrier while a thread of another block's row is
\* behind it
C4_Witness ==
  \E t, u, v \in Threads :
    /\ WorksOnRow(t) /\ WorksOnRow(u) /\ WorksOnRow(v)
    /\ WaitsFor(t, u)
    /\ blockIdx(v) # blockIdx(t)
    /\ th[v].nbar < th[t].nbar

\* ------------------------------------------------------------------------
\* C6.  When the kernel has completed, cache[2b] is row b's mean and
\* cache[2b + 1] row b's inverse standard deviation for every b < batch_size,
\* and each was written; at no time have two different values been written
\* to one cache slot, or a slot outside [0, 2 * batch_size) been written.
\* ------------------------------------------------------------------------
C6_CacheHoldsRowStatistics ==
  /\ \A w \in cwr : w[1] \in 0 .. 2 * batch_size - 1
  /\ \A w1, w2 \in cwr : w1[1] = w2[1] => w1[2] = w2[2]
  /\ KernelDone =>
       \A b \in RowsOf(batch_size) :
         /\ cache[2 * b] = RowMean(b)
         /\ cache[2 * b + 1] = RowInvStd(b)
         /\ \E w \in cwr : w[1] = 2 * b
         /\ \E w \in cwr : w[1] = 2 * b + 1

\* two threads of one row of the second block have both stored the row's
\* statistics
C6_Witness ==
  \E t, u \in Threads :
    /\ SameRow(t, u) /\ t # u
    /\ blockIdx(t) > 0
    /\ th[t].pc = "done" /\ th[u].pc = "done"
    /\ cache[2 * batch(t)] = RowMean(batch(t))

\* ------------------------------------------------------------------------
\* C5.  Between two launches on inputs of one shape, a row of the second
\* input that has the elements of a row of the first input gets that row's
\* y elements and cache entries, wherever the two rows stand in their
\* batches and whatever the other rows hold.  In particular, when the second
\* input is the first with its rows permuted, y and cache are the first
\* launch's with their rows permuted the same way.
\* ------------------------------------------------------------------------
RowOf(m, b) == [i \in 0 .. hidden_size - 1 |-> m[b * hidden_size + i]]

BothDone == launched = 2 /\ KernelDone

C5_RowOutputDependsOnRowOnly ==
  BothDone =>
    \A b, c \in RowsOf(batch_size) :
      RowOf(x, b) = RowOf(x0, c) =>
        /\ RowOf(y, b) = RowOf(y0, c)
        /\ cache[2 * b] = cache0[2 * c]
        /\ cache[2 * b + 1] = cache0[2 * c + 1]

\* the second input is the first with a row moved from one block to the
\* other, and the rows are not all alike
C5_Witness ==
  /\ BothDone
  /\ x # x0
  /\ \E f \in [RowsOf(batch_size) -> RowsOf(batch_size)] :
       /\ \A b, c \in RowsOf(batch_size) : b # c => f[b] # f[c]
       /\ \A b \in RowsOf(batch_size) : RowOf(x, b) = RowOf(x0, f[b])
       /\ \E b \in RowsOf(batch_size) : b \div BlockDimX # f[b] \div BlockDimX

\* ------------------------------------------------------------------------
\* Reference trajectory of the hidden state: h(-1) is the zero-filled
\* buffer, h(k) the gate fusion of h(k-1) with timestep k's input and
\* recurrent pre-activations.
\* ------------------------------------------------------------------------
HostCopy(b) == [op |-> "host", of |-> b]

WxRef(k) ==
  [op |-> "Wx", W |-> HostCopy("W_dev"), x |-> HostCopy("x_dev"),
   x_off |-> k * g_batch_size * g_input_size]

RECURSIVE HRef(_)
HRef(k) ==
  IF k < 0 THEN Zero
  ELSE [op |-> "gru",
        h |-> HRef(k - 1),
        Wx |-> WxRef(k),
        Rh |-> [op |-> "Rh", R |-> HostCopy("R_dev"), h |-> HRef(k - 1)],
        bx |-> HostCopy("bx_dev"),
        br |-> HostCopy("br_dev")]

RhRef(k) == [op |-> "Rh", R |-> HostCopy("R_dev"), h |-> HRef(k - 1)]

IterateOpKinds == {"gemm_Wx", "gemm_Rh", "pointwise"}

\* ------------------------------------------------------------------------
\* C7.  The hidden-state buffer holds h(t-1) when the first operation of
\* timestep t is about to execute and until the timestep's gate fusion
\* executes, and h(t) once it has executed, for every timestep submitted.
\* ------------------------------------------------------------------------
C7_HiddenStateTrajectory ==
  /\ DevHead("gemm_Wx") => Contents("h_dev") = HRef(Head(queue).t - 1)
  /\ lastOp.op \in {"gemm_Wx", "gemm_Rh"} => Contents("h_dev") = HRef(lastOp.t - 1)
  /\ lastOp.op = "pointwise" => Contents("h_dev") = HRef(lastOp.t)

C7_Witness ==
  /\ time_steps = MaxSteps
  /\ lastOp.op = "pointwise"
  /\ lastOp.t = time_steps - 1
  /\ Contents("h_dev") = HRef(time_steps - 1)
  /\ Contents("h_dev") # HRef(time_steps - 2)

\* ------------------------------------------------------------------------
\* C8.  Iterate is submitted once for each t = 0, 1, ... in increasing
\* order, time_steps times in all; the device executes the timesteps'
\* operations in that order; timestep t's recurrent GEMM reads h(t-1) while
\* the buffer still holds it, and the gate fusion of timestep t consumes the
\* recurrent pre-activations written for timestep t, which the scratch
\* buffer still holds at that point.
\* ------------------------------------------------------------------------
OpRank(o) ==
  CASE o.op = "gemm_Wx" -> 3 * o.t
    [] o.op = "gemm_Rh" -> 3 * o.t + 1
    [] o.op = "pointwise" -> 3 * o.t + 2
    [] OTHER -> -1

LoopIsOver == gpc \in {"L114", "L58", "L138", "done"}

C8_TimestepsStrictlyOrdered ==
  /\ Len(submitted) = loop_t
  /\ \A i \in 1 .. Len(submitted) : submitted[i] = i - 1
  /\ LoopIsOver => Len(submitted) = time_steps
  /\ \A i \in 1 .. Len(queue) :
       queue[i].op \in IterateOpKinds =>
         /\ OpRank(lastOp) < OpRank(queue[i])
         /\ \A j \in 1 .. i - 1 : OpRank(queue[j]) < OpRank(queue[i])
  /\ lastOp.op = "gemm_Rh" =>
       /\ Contents("tmp_Rh_dev") = RhRef(lastOp.t)
       /\ Contents("h_dev") = HRef(lastOp.t - 1)
  /\ lastOp.op = "pointwise" =>
       /\ Contents("h_dev").Rh = RhRef(lastOp.t)
       /\ Contents("tmp_Rh_dev") = RhRef(lastOp.t)

\* the second timestep's operations are pending behind the first's gate
\* fusion, and the host has already left the loop
C8_Witness ==
  /\ LoopIsOver
  /\ time_steps = MaxSteps
  /\ lastOp.op = "gemm_Rh" /\ lastOp.t = 0
  /\ Len(queue) >= 4

\* ------------------------------------------------------------------------
\* C9.  With time_steps = 0 no Iterate call is made, no operation of a
\* timestep is ever submitted, and the hidden-state buffer keeps the zero
\* fill from the moment the device has performed it until the buffer is
\* destroyed.
\* ------------------------------------------------------------------------
C9_ZeroLengthSequence ==
  time_steps = 0 =>
    /\ submitted = << >>
    /\ \A i \in 1 .. Len(queue) : queue[i].op \notin IterateOpKinds
    /\ lastOp.op \notin IterateOpKinds
    /\ (lastOp.op # "none" /\ dev["h_dev"].live) => dev["h_dev"].val = Zero

\* the loop has been left and the timer has stopped; h_dev is still alive
C9_Witness ==
  /\ time_steps = 0
  /\ gpc = "L114"
  /\ "stop_" \in eventsDone
  /\ dev["h_dev"].live
  /\ dev["h_dev"].val = Zero

\* ------------------------------------------------------------------------
\* C10.  No buffer is released twice or before the end of GruInference's
\* scope; once GruInference has returned, each of the eight buffers has been
\* allocated once and released once, and no device allocation is live, as
\* before the call.
\* ------------------------------------------------------------------------
Live == {b \in Buffers : dev[b].live}

C10_BuffersReleasedExactlyOnce ==
  /\ \A b \in Buffers :
       /\ frees[b] <= allocs[b]
       /\ allocs[b] <= 1
       /\ frees[b] > 0 => gpc \in {"L114", "L138", "done"}
       /\ dev[b].live <=> (allocs[b] = 1 /\ frees[b] = 0)
  /\ gpc \in {"L138", "done"} =>
       /\ Live = {}
       /\ \A b \in Buffers : allocs[b] = 1 /\ frees[b] = 1

C10_Witness ==
  /\ gpc = "L138"
  /\ time_steps = MaxSteps
  /\ \A b \in Buffers : frees[b] = 1

\* ------------------------------------------------------------------------
\* C11: the BLAS handle is created exactly once, before the ForwardPass is
\* constructed; every Iterate call is made while the handle exists, after
\* its creation and before its destruction; and the handle is destroyed
\* exactly once, after GruInference has returned (its scope is empty and
\* the host is at line 138).  The handle only ever moves none -> created ->
\* destroyed, so neither step can happen twice.
\* ------------------------------------------------------------------------
Range(f) == {f[i] : i \in DOMAIN f}

GruInferenceReturned == gpc \in {"L138", "done"} /\ scope = << >>

HandleInUse ==
  /\ ("forward" \in Range(scope) => blas = "created")
  /\ (submitted # << >> => blas # "none")
  /\ (gpc = "done" => blas = "destroyed")

C11_HandleLifecycle ==
  [][/\ HandleInUse
     /\ HandleInUse'
     /\ (Len(scope') > Len(scope) /\ LastConstructed(scope') = "forward"
           => blas = "created")
     /\ (submitted' # submitted => blas = "created" /\ blas' = "created")
     /\ (blas' # blas =>
           \/ blas = "none" /\ blas' = "created" /\ scope = << >> /\ submitted = << >>
           \/ blas = "created" /\ blas' = "destroyed" /\ GruInferenceReturned)]_vars

C11_Witness ==
  /\ gpc = "done"
  /\ blas = "destroyed"
  /\ Len(submitted) = time_steps
  /\ time_steps >= 2

\* ------------------------------------------------------------------------
\* C12: when every Iterate call so far was made with zoneout probability 0,
\* the hidden state after timestep t is h(t) of the path without a mask,
\* whichever mask pointer each call was given (null or not, keeping any
\* units).
\* ------------------------------------------------------------------------
ProbZeroUpTo(n) == \A i \in 1 .. n : calls[i].zoneout_prob = 0

C12_ProbZeroIsNoMaskPath ==
  lastOp.op = "pointwise" /\ ProbZeroUpTo(lastOp.t + 1)
    => Contents("h_dev") = HRef(lastOp.t)

C12_Witness ==
  /\ lastOp.op = "pointwise"
  /\ lastOp.t = time_steps - 1
  /\ time_steps >= 2
  /\ ProbZeroUpTo(time_steps)
  /\ \A i \in 1 .. time_steps : MaskKeeps(calls[i].zoneout_mask) # {}
  /\ Contents("h_dev") = HRef(time_steps - 1)

\* ------------------------------------------------------------------------
\* C13: when every Iterate call so far was made with a positive zoneout
\* probability and a mask that keeps unit u, unit u of the hidden state
\* after each timestep is unit u of the initial (zeroed) hidden state,
\* whatever the weights, biases and inputs, which the contents carry
\* symbolically.
\* ------------------------------------------------------------------------
\* element u of a buffer's contents: a zoneout result takes it from the
\* previous state where the mask keeps u and from the new state elsewhere
RECURSIVE Elem(_, _)
Elem(v, u) ==
  IF v.op = "zoneout"
  THEN IF u \in MaskKeeps(v.mask) THEN Elem(v.old, u) ELSE Elem(v.new, u)
  ELSE [op |-> "elem", u |-> u, of |-> v]

KeptUpTo(u, n) ==
  \A i \in 1 .. n : /\ calls[i].zoneout_prob > 0
                     /\ calls[i].zoneout_mask # "nullptr"
                     /\ u \in MaskKeeps(calls[i].zoneout_mask)

C13_KeptUnitHoldsInitialValue ==
  lastOp.op = "pointwise" =>
    \A u \in Units :
      KeptUpTo(u, lastOp.t + 1) => Elem(Contents("h_dev"), u) = Elem(Zero, u)

C13_Witness ==
  /\ lastOp.op = "pointwise"
  /\ lastOp.t = time_steps - 1
  /\ time_steps >= 2
  /\ KeptUpTo(0, time_steps)
  /\ ~KeptUpTo(1, 1)
  /\ Elem(Contents("h_dev"), 0) = Elem(Zero, 0)
  /\ Elem(Contents("h_dev"), 1) # Elem(Zero, 1)

\* ------------------------------------------------------------------------
\* C14: when a thread has written its phase-2 partial (line 66), every
\* thread of its row's worker group has already read the phase-1 total from
\* the row's slot 0 (line 57); and the mean a thread holds is the phase-1
\* total over hidden_size, so no thread read slot 0 after a phase-2 value
\* had replaced the total.
\* ------------------------------------------------------------------------
HasWrittenSumSq(u) == th[u].pc \in {"L67", "L72", "done"}

C14_MeanReadBeforeSlotReuse ==
  \A t \in Threads :
    /\ HasReadMean(t) => th[t].mean = RowMean(batch(t))
    /\ WorksOnRow(t) =>
         \A u \in Threads : SameRow(t, u) /\ HasWrittenSumSq(u) => HasReadMean(t)

\* the thread owning slot 0 of a row has overwritten it with its phase-2
\* partial while another thread of the row, which read the mean before, is
\* still at the barrier of line 58
C14_Witness ==
  \E t, u \in Threads :
    /\ SameRow(t, u) /\ t # u
    /\ index(u) = 0
    /\ th[u].pc = "L67"
    /\ th[t].pc = "L58"
    /\ th[t].mean = RowMean(batch(t))
    /\ Slot0(t) # RowSum(batch(t))

\* ------------------------------------------------------------------------
\* C15: every thread of the launch terminates, for every batch_size >= 1
\* and hidden_size >= 1, also when batch_size is no multiple of blockDim.x:
\* the threads past the last row return before the first barrier and hold
\* up no thread of their block; every thread that does not return executes
\* the same number of barriers (line 48, line 58, line 67 and one per
\* iteration of each tree loop).
\* ------------------------------------------------------------------------
BarriersPerThread == 3 + 2 * LogBlockDimY

C15_EveryThreadTerminates ==
  /\ <>KernelDone
  /\ [](\A t \in Threads :
         /\ th[t].pc = "done" => th[t].nbar = BarriersPerThread
         /\ th[t].pc = "exit" => th[t].nbar = 0 /\ ~WorksOnRow(t))

\* a block whose last rows lie past batch_size has completed: some of its
\* threads returned at line 32, the others went through every barrier
C15_Witness ==
  /\ KernelDone
  /\ batch_size % BlockDimX # 0
  /\ batch_size > BlockDimX
  /\ \E t, u \in Threads :
       /\ blockIdx(t) = blockIdx(u)
       /\ th[t].pc = "exit"
       /\ th[u].pc = "done"
       /\ th[u].nbar = BarriersPerThread

\* ------------------------------------------------------------------------
\* C16: shared memory is free of data races.  Two different threads of a
\* block whose last code ran between the same two barriers did not touch a
\* common shared slot unless both only read it; a tree iteration with
\* half-width s is run by the threads with index < s, each writing only
\* its own slot and reading only that slot and the one s above it; the
\* regions of different rows of a block are disjoint, and a thread stays
\* inside its row's region.  Every change of a shared slot is a write
\* listed for the thread that made the step.
\* ------------------------------------------------------------------------
SharedOf(acc) == {a \in acc : a[1] = "shared"}

Conflict(a, b) == a[2] = b[2] /\ (a[3] = "w" \/ b[3] = "w")

RowRegion(t) == {batch_block_idx(t) + k : k \in 0 .. stride - 1}

RaceFree ==
  \A t, u \in Threads :
    t # u /\ blockIdx(t) = blockIdx(u) /\ LastInterval(t) = LastInterval(u) =>
      \A a \in SharedOf(LastAccess(t)) : \A b \in SharedOf(LastAccess(u)) :
        ~Conflict(a, b)

TreeStepShape ==
  \A t \in Threads :
    th[t].pc \in {"L53", "L72"} =>
      LET own == batch_block_idx(t) + index(t)
          acc == SharedOf(LastAccess(t))
      IN /\ acc # {} <=> index(t) < th[t].s
         /\ \A a \in acc : a[3] = "w" => a[2] = own
         /\ \A a \in acc : a[3] = "r" => a[2] \in {own, own + th[t].s}
         /\ \A u \in Threads :
              SameRow(t, u) /\ th[u].pc = th[t].pc /\ th[u].s = th[t].s =>
                <<"shared", own + th[t].s, "w">> \notin LastAccess(u)

RegionsDisjoint ==
  \A t, u \in Threads :
    /\ \A a \in SharedOf(LastAccess(t)) : a[2] \in RowRegion(t)
    /\ blockIdx(t) = blockIdx(u) /\ threadIdxX(t) # threadIdxX(u) =>
         RowRegion(t) \cap RowRegion(u) = {}

WritesListed ==
  launched' = launched =>
    \A t \in Threads :
      th'[t] # th[t] =>
        \A b \in DOMAIN shared : \A k \in DOMAIN shared[b] :
          shared'[b][k] # shared[b][k] =>
            b = blockIdx(t) /\ <<"shared", k, "w">> \in LastAccess(t)'

C16_SharedMemoryRaceFree ==
  /\ RaceFree /\ TreeStepShape /\ RegionsDisjoint
  /\ [][RaceFree' /\ TreeStepShape' /\ RegionsDisjoint' /\ WritesListed]_vars

\* two rows of one block have run the same tree iteration, each in its own
\* region, the reading thread of a row taking the slot its neighbour wrote
\* before the barrier
C16_Witness ==
  \E t, u, v \in Threads :
    /\ blockIdx(t) = blockIdx(u) /\ threadIdxX(t) # threadIdxX(u)
    /\ th[t].pc = "L72" /\ th[u].pc = "L72"
    /\ LastInterval(t) = LastInterval(u)
    /\ SharedOf(LastAccess(t)) # {} /\ SharedOf(LastAccess(u)) # {}
    /\ SameRow(t, v) /\ v # t /\ th[v].pc = "L67"
    /\ <<"shared", batch_block_idx(t) + index(t) + th[t].s, "w">> \in LastAccess(v)

\* ------------------------------------------------------------------------
\* C17: every memory access of the kernel is in bounds: shared memory
\* inside the blockDim.x * blockDim.y elements the launch allocates, x and
\* y inside batch_size * hidden_size elements, alpha and beta inside
\* hidden_size elements, cache inside 2 * batch_size elements.
\* ------------------------------------------------------------------------
InBounds(a) ==
  CASE a[1] = "shared" -> a[2] \in 0 .. SharedElems - 1
    [] a[1] \in {"x", "y"} -> a[2] \in 0 .. batch_size * hidden_size - 1
    [] a[1] \in {"alpha", "beta"} -> a[2] \in 0 .. hidden_size - 1
    [] a[1] = "cache" -> a[2] \in 0 .. 2 * batch_size - 1

C17_AccessesInBounds ==
  /\ \A t \in Threads : \A a \in LastAccess(t) : InBounds(a)
  /\ \A b \in DOMAIN shared : DOMAIN shared[b] = 0 .. SharedElems - 1
  /\ \A w \in ywr : w[1] \in DOMAIN y
  /\ \A w \in cwr : w[1] \in DOMAIN cache

\* the last row, in a partial second block, has touched the last element of
\* x, y and cache, and the last row of a block the last shared slot
C17_Witness ==
  /\ KernelDone
  /\ batch_size = MaxBatch
  /\ hidden_size = MaxHidden
  /\ \E t \in Threads :
       /\ <<"y", batch_size * hidden_size - 1, "w">> \in LastAccess(t)
       /\ <<"x", batch_size * hidden_size - 1, "r">> \in LastAccess(t)
  /\ \E t \in Threads : <<"cache", 2 * batch_size - 1, "w">> \in LastAccess(t)
  /\ <<2 * batch_size - 1, cache[2 * batch_size - 1]>> \in cwr

\* ------------------------------------------------------------------------
\* C18: no device buffer is released while an operation submitted by
\* Iterate that reads or writes it is still pending, and the timer's wait
\* for its stop event has returned, with every submitted operation
\* executed, before the first buffer is released.
\* ------------------------------------------------------------------------
Pending == {queue[i] : i \in DOMAIN queue}

TimerSynchronised == "t" \notin Range(scope) /\ "stop_" \in eventsDone

C18_NoReleaseWhilePending ==
  /\ \A o \in Pending : \A b \in OpBuffers(o) : dev[b].live
  /\ (\E b \in Buffers : frees[b] > 0) =>
       /\ TimerSynchronised
       /\ \A o \in Pending : o.op \notin IterateOpKinds
       /\ Len(submitted) = time_steps
       /\ time_steps > 0 => lastOp.op = "event"

\* the first buffer has just been released, after a run of several
\* timesteps whose last operation the device executed before the stop event
C18_Witness ==
  /\ time_steps >= 2
  /\ frees["tmp_Rh_dev"] = 1
  /\ ~dev["tmp_Rh_dev"].live
  /\ \A b \in Buffers \ {"tmp_Rh_dev"} : dev[b].live /\ frees[b] = 0
  /\ lastOp = [op |-> "event", ev |-> "stop_"]
  /\ Contents("h_dev") = HRef(time_steps - 1)

\* ------------------------------------------------------------------------
\* C19: the slices handed to Iterate lie inside their buffers and do not
\* overlap.  The call for timestep t gets batch_size * input_size elements
\* of x from offset t * batch_size * input_size, inside the buffer's
\* time_steps * batch_size * input_size elements, and
\* batch_size * hidden_size * 3 elements of tmp_Wx from offset
\* t * batch_size * hidden_size * 3, inside the buffer's
\* time_steps * batch_size * hidden_size * 3 elements; the slices of two
\* different timesteps share no element.
\* ------------------------------------------------------------------------
XSliceLen == g_batch_size * g_input_size

WxSliceLen == g_batch_size * g_hidden_size * 3

Inside(off, len, size) == 0 <= off /\ off + len <= size

Apart(off1, off2, len) == off1 + len <= off2 \/ off2 + len <= off1

C19_SlicesInsideAndDisjoint ==
  /\ \A i \in DOMAIN calls :
       /\ calls[i].x_off = submitted[i] * XSliceLen
       /\ calls[i].tmp_Wx_off = submitted[i] * WxSliceLen
       /\ Inside(calls[i].x_off, XSliceLen, SizeOf(calls[i].x))
       /\ Inside(calls[i].tmp_Wx_off, WxSliceLen, SizeOf(calls[i].tmp_Wx))
       /\ dev[calls[i].x].live => Inside(calls[i].x_off, XSliceLen, dev[calls[i].x].size)
       /\ dev[calls[i].tmp_Wx].live =>
            Inside(calls[i].tmp_Wx_off, WxSliceLen, dev[calls[i].tmp_Wx].size)
  /\ \A i, j \in DOMAIN calls :
       i # j =>
         /\ Apart(calls[i].x_off, calls[j].x_off, XSliceLen)
         /\ Apart(calls[i].tmp_Wx_off, calls[j].tmp_Wx_off, WxSliceLen)

\* the last timestep's slices end with the last element of their buffers
C19_Witness ==
  /\ time_steps >= 2
  /\ Len(calls) = time_steps
  /\ calls[time_steps].x_off + XSliceLen = SizeOf("x_dev")
  /\ calls[time_steps].tmp_Wx_off + WxSliceLen = SizeOf("tmp_Wx_dev")
  /\ calls[1].x_off = 0
  /\ dev["x_dev"].live /\ dev["x_dev"].size = SizeOf("x_dev")

====
